---- MODULE Spec2Model ----
(***************************************************************************)
(* Model of the installector terminal assistant: the streaming response    *)
(* session (SimpleTerminal.show_streaming_output), the section extractor   *)
(* (ResponseHandler), the step confirmation (CommandProcessor), the        *)
(* verification runner (VerificationOutput) and the conversation history   *)
(* (MessageBroker).                                                        *)
(*                                                                         *)
(* A text is a sequence of tokens. A token stands for a run of characters  *)
(* that the program never looks inside ("<", "/", ">", a tag name, a word, *)
(* a blank, a newline, a code fence); the concatenation of two texts is    *)
(* the concatenation of their token sequences. The empty text is << >>.    *)
(***************************************************************************)
EXTENDS Integers, Sequences, FiniteSets, TLC

(***************************************************************************)
(* Bounds of the model.                                                    *)
(***************************************************************************)
\* fragments one model stream may deliver
MaxFrags == 2
\* pieces of text the extractor, exercised on its own, is given
MaxPieces == 4
\* model streams requested in one run of the terminal
MaxStreams == 2
\* capacity of the conversation history (MessageBroker(max_history=...))
max_history == 2

(***************************************************************************)
(* Python values.                                                          *)
(***************************************************************************)
\* Python's None; formatted into an f-string it reads "None"
None == <<"None">>

\* truthiness of an optional text: None and "" are falsy
Truthy(x) == x # None /\ x # << >>

\* str.lower(), token by token
LowerToken(t) ==
    CASE t = "TERMINATE" -> "terminate"
      [] t = "Terminate" -> "terminate"
      [] t = "YES" -> "yes"
      [] t = "Yes" -> "yes"
      [] t = "Y" -> "y"
      [] t = "NO" -> "no"
      [] t = "No" -> "no"
      [] t = "N" -> "n"
      [] t = "Command not found" -> "command not found"
      [] OTHER -> t

Lower(s) == [i \in 1..Len(s) |-> LowerToken(s[i])]

\* characters str.strip() removes
IsSpace(t) == t \in {" ", "\n"}

\* str.strip()
Strip(s) ==
    LET keep == {i \in 1..Len(s) : ~IsSpace(s[i])}
    IN  IF keep = {} THEN << >>
        ELSE LET lo == CHOOSE i \in keep : \A j \in keep : i <= j
                 hi == CHOOSE i \in keep : \A j \in keep : j <= i
             IN  SubSeq(s, lo, hi)

\* positions at which pat occurs in text
Occurrences(text, pat) ==
    {i \in 1..(Len(text) - Len(pat) + 1) : SubSeq(text, i, i + Len(pat) - 1) = pat}

\* Python's `pat in text`
Contains(text, pat) == Occurrences(text, pat) # {}

Min(S) == CHOOSE i \in S : \A j \in S : i <= j

(***************************************************************************)
(* Tags.                                                                   *)
(***************************************************************************)
OpenTag(tag) == <<"<", tag, ">">>
CloseTag(tag) == <<"<", "/", tag, ">">>

\* the literal "<TERMINATE></TERMINATE>" of show_streaming_output
TERMINATE_MARKER == OpenTag("TERMINATE") \o CloseTag("TERMINATE")

(***************************************************************************)
(* Section Extractor: ResponseHandler (console_response.py).               *)
(***************************************************************************)
\* the token that stands for the code fence marker (three backticks)
FENCE == "[fence]"

\* tokens that are not matched by the regular expression \w+
NonWordTokens == {"<", ">", "/", " ", "\n", "-", ".", ":", FENCE}

IsWord(t) == t \notin NonWordTokens

\* number of leading tokens of s matched by \w+ (greedy)
RECURSIVE WordRun(_)
WordRun(s) ==
    IF s # << >> /\ IsWord(Head(s)) THEN 1 + WordRun(Tail(s)) ELSE 0

\* re.search(r"FENCE(?:xml|bash|shell|\w+)?\n?(.*?)FENCE", content, re.DOTALL):
\* the interior (group 1) of the first fenced block, or None without a match
CodeBlockInterior(content) ==
    LET fences == Occurrences(content, <<FENCE>>)
    IN  IF Cardinality(fences) < 2 THEN None
        ELSE LET p == Min(fences)
                 q == Min(fences \ {p})
                 afterFence == SubSeq(content, p + 1, q - 1)
                 lang == WordRun(afterFence)
                 afterLang == SubSeq(afterFence, lang + 1, Len(afterFence))
                 nl == IF afterLang # << >> /\ Head(afterLang) = "\n" THEN 1 ELSE 0
             IN  SubSeq(afterLang, nl + 1, Len(afterLang))

\* the extraction with a greedy pattern: the body runs to the last closing tag
extract_xml_section_greedy(text, tag) ==
    LET opens == Occurrences(text, OpenTag(tag))
        closes == Occurrences(text, CloseTag(tag))
    IN  IF opens = {} THEN << >>
        ELSE LET i == Min(opens)
                 after == {j \in closes : j >= i + 3}
             IN  IF after = {} THEN << >>
                 ELSE LET last == CHOOSE j \in after : \A k \in after : k <= j
                          content == Strip(SubSeq(text, i + 3, last - 1))
                          code == CodeBlockInterior(content)
                      IN  IF code # None THEN Strip(code) ELSE content

\* ResponseHandler.extract_xml_section
extract_xml_section(text, tag) ==
    IF LowerToken(tag) = "terminate"
    THEN LET low == Lower(text)
             opens == Occurrences(low, OpenTag("terminate"))
             closes == Occurrences(low, CloseTag("terminate"))
         IN  IF \E i \in opens : \E j \in closes : j >= i + 3
             THEN <<"true">> ELSE << >>
    ELSE LET opens == Occurrences(text, OpenTag(tag))
             closes == Occurrences(text, CloseTag(tag))
         IN  IF opens = {} THEN << >>
             ELSE LET i == Min(opens)
                      after == {j \in closes : j >= i + 3}
                  IN  IF after = {} THEN << >>
                      ELSE LET content == Strip(SubSeq(text, i + 3, Min(after) - 1))
                               code == CodeBlockInterior(content)
                           IN  IF code # None THEN Strip(code) ELSE content

\* ResponseHandler.extract_response_sections
extract_response_sections(text) ==
    [think |-> extract_xml_section(text, "think"),
     title |-> extract_xml_section(text, "title_section"),
     description |-> extract_xml_section(text, "description_section"),
     execution |-> extract_xml_section(text, "execution_section"),
     expected |-> extract_xml_section(text, "expected_section"),
     verification |-> extract_xml_section(text, "verification_section"),
     conclusion |-> extract_xml_section(text, "conclusion_section")]

(***************************************************************************)
(* Response Formatter: ConsoleFormatter (console_formatter.py). A rendering *)
(* is a rich Text: a sequence of spans, each a text with a style.          *)
(***************************************************************************)
\* the token that stands for the separator line of 80 box-drawing dashes
RULE == "[rule]"

Span(text, style) == [text |-> text, style |-> style]

\* ConsoleFormatter.format_command_block
format_command_block(cmd, block_type) ==
    << Span(<<"\n">>, ""),
       Span(<<RULE, "\n">>, "dim"),
       Span(<<IF block_type = "exec" THEN "Execute Command:" ELSE "Verify Command:">>,
            "bold cyan"),
       Span(<<"\n", "\n">>, ""),
       Span(cmd, "bold white on black"),
       Span(<<"\n">>, ""),
       Span(<<RULE, "\n">>, "dim") >>

\* the rendering with the verification block placed before the execution
\* block
format_response_text_verification_first(sections) ==
    (IF sections.title # << >>
     THEN <<Span(<<"\n", "##", " ">> \o sections.title \o <<"\n", "\n">>, "bold cyan")>>
     ELSE << >>)
    \o (IF sections.description # << >>
        THEN <<Span(sections.description \o <<"\n", "\n">>, "")>> ELSE << >>)
    \o (IF sections.verification # << >>
        THEN format_command_block(sections.verification, "verify") ELSE << >>)
    \o (IF sections.execution # << >>
        THEN format_command_block(sections.execution, "exec") ELSE << >>)
    \o (IF sections.expected # << >>
        THEN <<Span(<<"\n", "Expected Outcome:", "\n">>, "bold yellow"),
               Span(sections.expected \o <<"\n">>, "")>>
        ELSE << >>)
    \o (IF sections.conclusion # << >>
        THEN <<Span(<<"\n">> \o sections.conclusion \o <<"\n">>, "italic")>> ELSE << >>)

\* ConsoleFormatter.format_response_text
format_response_text(sections) ==
    (IF sections.title # << >>
     THEN <<Span(<<"\n", "##", " ">> \o sections.title \o <<"\n", "\n">>, "bold cyan")>>
     ELSE << >>)
    \o (IF sections.description # << >>
        THEN <<Span(sections.description \o <<"\n", "\n">>, "")>> ELSE << >>)
    \o (IF sections.execution # << >>
        THEN format_command_block(sections.execution, "exec") ELSE << >>)
    \o (IF sections.expected # << >>
        THEN <<Span(<<"\n", "Expected Outcome:", "\n">>, "bold yellow"),
               Span(sections.expected \o <<"\n">>, "")>>
        ELSE << >>)
    \o (IF sections.verification # << >>
        THEN format_command_block(sections.verification, "verify") ELSE << >>)
    \o (IF sections.conclusion # << >>
        THEN <<Span(<<"\n">> \o sections.conclusion \o <<"\n">>, "italic")>> ELSE << >>)

(***************************************************************************)
(* Conversation history: MessageBroker (server/message_broker.py) and      *)
(* the prompt generation it calls (server/obs_prompt_gen.py).              *)
(***************************************************************************)
Roles == {"user", "assistant", "system"}

\* a value that is not a str is written as a sequence that opens with the
\* name of its type
TypeTags == {"[int]", "[list]"}

\* isinstance(content, str)
IsStr(content) ==
    content # None /\ (content = << >> \/ Head(content) \notin TypeTags)

\* the validation without the test of the role
add_message_raises_content_only(content, role) ==
    ~Truthy(content) \/ ~IsStr(content)

\* MessageBroker.add_message raises MessageBrokerError
add_message_raises(content, role) ==
    ~Truthy(content) \/ ~IsStr(content) \/ role \notin Roles

\* the append that files every message under the role assistant
add_message_as_assistant(history, content, role) ==
    LET kept == IF Len(history) >= max_history THEN Tail(history) ELSE history
    IN  Append(kept, [role |-> "assistant", content |-> content])

\* the append without the eviction of the oldest message
add_message_never_evicts(history, content, role) ==
    Append(history, [role |-> role, content |-> content])

\* MessageBroker.add_message, on accepted arguments: the new history
add_message(history, content, role) ==
    LET kept == IF Len(history) >= max_history THEN Tail(history) ELSE history
    IN  Append(kept, [role |-> role, content |-> content])

\* a validation that accepts every system info
validate_vendor_operation_raises_never(info) == FALSE

\* _validate_vendor_operation raises VendorOperationError
validate_vendor_operation_raises(info) ==
    \/ ~Truthy(info.user_select_info.selected_vendor)
    \/ ~Truthy(info.user_select_info.selected_operation)

\* format_prompt raises PromptGenerationError
format_prompt_raises(history, info) ==
    \/ \E i \in 1..Len(history) : history[i].role \notin Roles
    \/ validate_vendor_operation_raises(info)

\* MessageBroker.get_response raises instead of returning a generator
get_response_raises(history, info) ==
    history = << >> \/ format_prompt_raises(history, info)

(***************************************************************************)
(* Verification Runner: VerificationOutput (client/verify_execution.py).   *)
(***************************************************************************)
\* what subprocess.run can do with a verification command
SubprocessOutcomes ==
    { [kind |-> "completed", returncode |-> 0, stdout |-> <<"ok">>, stderr |-> << >>, message |-> << >>],
      [kind |-> "completed", returncode |-> 1, stdout |-> << >>, stderr |-> <<"failed">>, message |-> << >>],
      [kind |-> "TimeoutExpired", returncode |-> 0, stdout |-> << >>, stderr |-> << >>, message |-> << >>],
      [kind |-> "SubprocessError", returncode |-> 0, stdout |-> << >>, stderr |-> << >>,
       message |-> <<"sh", ":", " ", "Command not found">>],
      [kind |-> "SubprocessError", returncode |-> 0, stdout |-> << >>, stderr |-> << >>,
       message |-> <<"broken pipe">>],
      [kind |-> "Exception", returncode |-> 0, stdout |-> << >>, stderr |-> << >>,
       message |-> <<"embedded null byte">>] }

\* what subprocess.run(verify_command, shell=True) does when the command, or
\* the shell itself, does not exist: the shell reports the missing command on
\* stderr and exits with 127; a missing shell raises FileNotFoundError, an
\* OSError and not a SubprocessError
MissingCommandOutcomes ==
    { [kind |-> "completed", returncode |-> 127, stdout |-> << >>,
       stderr |-> <<"/bin/sh:", " ", "foo:", " ", "not found">>, message |-> << >>],
      [kind |-> "Exception", returncode |-> 0, stdout |-> << >>, stderr |-> << >>,
       message |-> <<"[Errno 2] No such file or directory:", " ", "/bin/sh">>] }

\* the outcomes the verification runner is exercised with on its own: those
\* above, a failing command that wrote to both streams and a failing command
\* whose own output reads like the runner's timeout report
VerifierOutcomes ==
    SubprocessOutcomes \cup MissingCommandOutcomes \cup
    { [kind |-> "completed", returncode |-> 1, stdout |-> <<"partial">>,
       stderr |-> <<"failed">>, message |-> << >>],
      [kind |-> "completed", returncode |-> 1,
       stdout |-> <<"Timeout Error:", " ", "Command timed out after 30 seconds">>,
       stderr |-> << >>, message |-> << >>] }

\* str(returncode)
IntStr(n) == CASE n = 0 -> "0" [] n = 1 -> "1" [] n = 127 -> "127" [] OTHER -> "n"

\* the class of the exception the inner try block of run_verification raises
VerificationErrorClass(o) ==
    CASE o.kind = "TimeoutExpired" -> "CommandTimeoutError"
      [] o.kind = "SubprocessError" /\ Contains(Lower(o.message), <<"command not found">>)
            -> "CommandNotFoundError"
      [] o.kind = "SubprocessError" -> "CommandExecutionError"
      [] OTHER -> "Exception"

\* the result string with the status word fixed to Success
verification_result_always_success(o) ==
    (IF o.stdout # << >> THEN <<"Output:", "\n">> \o o.stdout \o <<"\n">> ELSE << >>)
    \o (IF o.stderr # << >> THEN <<"Errors:", "\n">> \o o.stderr \o <<"\n">> ELSE << >>)
    \o <<"Status:", " ", "Success", " ", "(return code:", " ", IntStr(o.returncode), ")">>

\* the verification_result string of a completed command
verification_result(o) ==
    (IF o.stdout # << >> THEN <<"Output:", "\n">> \o o.stdout \o <<"\n">> ELSE << >>)
    \o (IF o.stderr # << >> THEN <<"Errors:", "\n">> \o o.stderr \o <<"\n">> ELSE << >>)
    \o <<"Status:", " ", (IF o.returncode = 0 THEN "Success" ELSE "Failed"), " ",
         "(return code:", " ", IntStr(o.returncode), ")">>

\* VerificationOutput.run_verification: the returned value. type = "bool" is
\* a bare bool, type = "tuple" is the pair (success, result).
run_verification(verify_command, o) ==
    IF ~Truthy(verify_command)
    THEN [type |-> "bool", success |-> TRUE, result |-> None]
    ELSE IF o.kind = "completed"
    THEN [type |-> "tuple", success |-> (o.returncode = 0), result |-> verification_result(o)]
    ELSE LET class == VerificationErrorClass(o)
         IN  [type |-> "tuple", success |-> FALSE,
              result |->
                CASE class = "CommandTimeoutError" ->
                        <<"Timeout Error:", " ", "Command timed out after 30 seconds">>
                  [] class = "CommandNotFoundError" ->
                        <<"Command Not Found:", " ", "Command not found:", " ", Head(verify_command)>>
                  [] class = "CommandExecutionError" ->
                        <<"Execution Error:", " ", "Error executing command:", " ">> \o o.message
                  [] OTHER -> <<"Unexpected Error:", " ">> \o o.message]

\* run_verification reaches subprocess.run
spawns_subprocess(verify_command) == Truthy(verify_command)

\* `success, result = verifier.run_verification(...)` raises TypeError
unpack_raises(returned) == returned.type # "tuple"

\* the follow-up message built without looking at the outcome
verification_message_next_step_always(success, result, last_exec, last_verify) ==
    <<"The previous step was successful. Here are the details:", "\n",
      "Executed Command:", " ">> \o last_exec
    \o <<"\n", "Verification Command:", " ">> \o last_verify
    \o <<"\n", "Verification Result:", " ">> \o result
    \o <<"\n", "Please provide the next step. However, if there are no more steps remaining, include", " ">>
    \o TERMINATE_MARKER \o <<" ", "in your response.">>

\* the follow-up message handle_verification_status builds
verification_message(success, result, last_exec, last_verify) ==
    IF success
    THEN <<"The previous step was successful. Here are the details:", "\n",
           "Executed Command:", " ">> \o last_exec
         \o <<"\n", "Verification Command:", " ">> \o last_verify
         \o <<"\n", "Verification Result:", " ">> \o result
         \o <<"\n", "Please provide the next step. However, if there are no more steps remaining, include", " ">>
         \o TERMINATE_MARKER \o <<" ", "in your response.">>
    ELSE <<"The previous step failed. Here are the details:", "\n",
           "Executed Command:", " ">> \o last_exec
         \o <<"\n", "Verification Command:", " ">> \o last_verify
         \o <<"\n", "Verification Result:", " ">> \o result
         \o <<"\n", "Please analyze the output and provide specific troubleshooting steps to resolve this issue.">>

(***************************************************************************)
(* Inputs of the model.                                                    *)
(***************************************************************************)
\* fragments a model stream can deliver
Fragments ==
    { <<"<", "execution_section", ">", "apt", " ", "inst">>,
      <<"all", " ", "foo", "<", "/", "execution_section", ">">>,
      <<"<", "execution_section", ">", "ls", "<", "/", "execution_section", ">",
        "<", "verification_section", ">", "foo", " ", "-", "v", "<", "/", "verification_section", ">">>,
      <<"Done.", " ", "<", "TERMINATE", ">", "<", "/", "TERMINATE", ">", "\n">>,
      <<"<", "TERMINATE", ">", "<">>,
      <<"/", "TERMINATE", ">">>,
      <<"<", "terminate", ">", "<", "/", "Terminate", ">">>,
      <<"\n", "Error:", " ", "Rate limit reached.">> }

\* lines the user can enter at the command prompt; None is an interrupt or
\* end-of-input (SimpleTerminal.get_input returns None)
CommandInputs ==
    { None, << >>, <<" ">>, <<"exit">>, <<"close">>, <<"end">>, <<"menu">>, <<"main">>,
      <<"home">>, <<"help">>, <<"clear">>, <<"system">>, <<"how", " ", "next">> }

\* lines the user can enter at the confirmation prompt
ConfirmationInputs ==
    { None, << >>, <<" ">>, <<"yes">>, <<"Y">>, <<"no">>, <<"N">>, <<"maybe">>, <<" ", "no">> }

\* what MainMenu.select_option can return: None (exit), a vendor, a platform
MenuSelections == { None, <<"datadog_agent">>, <<"eks">> }

\* selections main() treats as observability vendors
Vendors == { <<"datadog_agent">> }

\* what ObsMenu.select_option can return: None (exit), "menu", an operation
ObsOperations == { None, <<"menu">>, <<"install">> }

(***************************************************************************)
(* State.                                                                  *)
(***************************************************************************)
VARIABLES
    pc,                  \* where the single thread of control waits
    call_stack,          \* the active show_streaming_output invocations
    accumulated_text,    \* the buffer of the innermost streaming session
    fragments_consumed,  \* fragments the innermost session has taken
    last_exec_command,   \* SimpleTerminal.last_exec_command
    last_verify_command, \* SimpleTerminal.last_verify_command
    message_history,     \* MessageBroker.message_history
    system_info,         \* SimpleTerminal.system_info (shared with the broker)
    streams_started,     \* generators obtained and handed to a session
    exit_code,           \* the value main() returned, None while running
    trace                \* what the last handler read, printed and called

vars == <<pc, call_stack, accumulated_text, fragments_consumed, last_exec_command,
          last_verify_command, message_history, system_info, streams_started,
          exit_code, trace>>

\* a handler that has printed and called nothing yet
Quiet(op, input) ==
    [op |-> op, input |-> input, notices |-> {}, subprocess_runs |-> 0,
     messages_added |-> 0, get_response_calls |-> 0, sessions_started |-> 0,
     returned |-> "none"]


\* the frame on top of a non-empty stack
Top(stack) == stack[Len(stack)]

\* the stack with its top frame replaced
ReplaceTop(stack, frame) == [stack EXCEPT ![Len(stack)] = frame]

Init ==
    /\ pc = "main_menu"
    /\ call_stack = << >>
    /\ accumulated_text = << >>
    /\ fragments_consumed = 0
    /\ last_exec_command = None
    /\ last_verify_command = None
    /\ message_history = << >>
    /\ system_info =
         [user_select_info |-> [mode_type |-> << >>, selected_vendor |-> << >>,
                                selected_operation |-> << >>, selected_platform |-> << >>],
          last_llm_response |-> None,
          exec_verify_info |-> [last_exec_command |-> None, last_verify_command |-> None,
                                last_verification_result |-> None,
                                last_verification_status |-> "absent"]]
    /\ streams_started = 0
    /\ exit_code = None
    /\ trace = Quiet("init", None)

(***************************************************************************)
(* Streaming Session: SimpleTerminal.show_streaming_output.                *)
(***************************************************************************)
\* the buffer replaced by the fragment instead of extended by it
accumulate_replacing(buffer, content) == content

\* accumulated_text += content
accumulate(buffer, content) == buffer \o content

\* a frame of show_streaming_output that has just received its generator;
\* it remembers the commands the terminal held when the session began
NewFrame ==
    [phase |-> "consuming", exhausted |-> FALSE, confirmations |-> 0,
     exec_before |-> last_exec_command, verify_before |-> last_verify_command]

\* show_streaming_output is entered with a generator: a generator object is
\* always truthy, so the `if not generator` branch is not taken and the
\* session starts to iterate with an empty buffer
StartSession(stack) ==
    /\ streams_started < MaxStreams
    /\ streams_started' = streams_started + 1
    /\ accumulated_text' = << >>
    /\ fragments_consumed' = 0
    /\ call_stack' = Append(stack, NewFrame)
    /\ pc' = "streaming"

\* the buffer is a local of show_streaming_output: the handlers that run
\* after the session has returned find it gone
DropBuffer ==
    /\ accumulated_text' = << >>
    /\ fragments_consumed' = 0

\* the update without the test for a non-empty section
updated_exec_command_always(sections, previous) == sections.execution

\* SimpleTerminal._update_system_info: the new last_exec_command
updated_exec_command(sections, previous) ==
    IF sections.execution # << >> THEN sections.execution ELSE previous

\* the update of the verification command without the test for a non-empty
\* section
updated_verify_command_always(sections, previous) == sections.verification

\* SimpleTerminal._update_system_info: the new last_verify_command
updated_verify_command(sections, previous) ==
    IF sections.verification # << >> THEN sections.verification ELSE previous

\* the test made with str.startswith instead of `in`
terminate_detected_at_start(text) ==
    /\ Len(text) >= Len(TERMINATE_MARKER)
    /\ SubSeq(text, 1, Len(TERMINATE_MARKER)) = TERMINATE_MARKER

\* the test of show_streaming_output for the termination signal
terminate_detected(text) == Contains(text, TERMINATE_MARKER)

\* the condition with `and` in place of `or`
wants_confirmation_both(exec, verify) == Truthy(exec) /\ Truthy(verify)

\* the condition under which the session hands off to the confirmation
wants_confirmation(exec, verify) == Truthy(exec) \/ Truthy(verify)

\* the loop body with the hand-off to the confirmation moved into it
ShowStreamingOutput_Fragment_hand_off_in_loop(content) ==
    /\ pc = "streaming"
    /\ fragments_consumed < MaxFrags
    /\ LET text == accumulated_text \o content
           sections == extract_response_sections(text)
           exec == updated_exec_command(sections, last_exec_command)
           verify == updated_verify_command(sections, last_verify_command)
       IN  /\ accumulated_text' = text
           /\ fragments_consumed' = fragments_consumed + 1
           /\ IF terminate_detected(text)
              THEN /\ pc' = "command_loop"
                   /\ call_stack' = << >>
                   /\ trace' = [Quiet("stream_fragment", content) EXCEPT
                                  !.notices = {"Operation Complete!"}]
                   /\ UNCHANGED <<last_exec_command, last_verify_command, system_info>>
              ELSE /\ system_info' = [system_info EXCEPT !.last_llm_response = sections]
                   /\ last_exec_command' = exec
                   /\ last_verify_command' = verify
                   /\ trace' = Quiet("stream_fragment", content)
                   /\ IF wants_confirmation(exec, verify)
                      THEN /\ pc' = "confirmation"
                           /\ call_stack' = ReplaceTop(call_stack,
                                  [Top(call_stack) EXCEPT !.phase = "confirming",
                                                          !.confirmations = @ + 1])
                      ELSE UNCHANGED <<pc, call_stack>>
    /\ UNCHANGED <<message_history, streams_started, exit_code>>

\* where the inner try block of the loop body can raise: nowhere, in the
\* extraction (before the commands are updated), or in the formatting and
\* the update of the live view (after the commands are updated)
FragmentFailures == {"none", "extraction", "formatting"}

\* what the inner `except Exception` handler shows: the debug line and the
\* raw accumulated text in place of the formatted view
raw_text_notices(failure) ==
    IF failure = "none" THEN {}
    ELSE {"Formatting error", "raw accumulated text", failure}

\* an inner handler that catches nothing
inner_handler_catches_nothing(failure) == FALSE

\* `except Exception as format_error` inside the loop catches every failure
\* of the try block
inner_handler_catches(failure) == failure # "none"

\* one iteration of `for content in generator`
ShowStreamingOutput_Fragment(content) ==
    /\ pc = "streaming"
    /\ fragments_consumed < MaxFrags
    /\ LET text == accumulate(accumulated_text, content)
       IN  /\ accumulated_text' = text
           /\ fragments_consumed' = fragments_consumed + 1
           /\ IF terminate_detected(text)
              THEN /\ pc' = "command_loop"
                   /\ call_stack' = << >>
                   /\ trace' = [Quiet("stream_fragment", content) EXCEPT
                                  !.notices = {"Operation Complete!"}]
                   /\ UNCHANGED <<last_exec_command, last_verify_command, system_info>>
              ELSE \E failure \in FragmentFailures :
                   LET sections == extract_response_sections(text)
                   IN  /\ IF failure = "extraction"
                          THEN UNCHANGED <<system_info, last_exec_command, last_verify_command>>
                          ELSE /\ system_info' = [system_info EXCEPT !.last_llm_response = sections]
                               /\ last_exec_command' =
                                     updated_exec_command(sections, last_exec_command)
                               /\ last_verify_command' =
                                     updated_verify_command(sections, last_verify_command)
                       /\ IF failure # "none" /\ ~inner_handler_catches(failure)
                          THEN \* the outer handler reports it and the session returns
                               /\ trace' = [Quiet("stream_fragment", content) EXCEPT
                                              !.notices = {"Output error", failure}]
                               /\ pc' = "command_loop"
                               /\ call_stack' = << >>
                          ELSE /\ trace' = [Quiet("stream_fragment", content) EXCEPT
                                              !.notices = raw_text_notices(failure)]
                               /\ UNCHANGED <<pc, call_stack>>
    /\ UNCHANGED <<message_history, streams_started, exit_code>>

\* the generator is exhausted: the loop ends and the commands are tested
ShowStreamingOutput_Exhausted ==
    /\ pc = "streaming"
    /\ IF wants_confirmation(last_exec_command, last_verify_command)
       THEN /\ pc' = "confirmation"
            /\ call_stack' = ReplaceTop(call_stack,
                                [Top(call_stack) EXCEPT
                                    !.phase = "confirming", !.exhausted = TRUE,
                                    !.confirmations = @ + 1])
       ELSE /\ pc' = "command_loop"
            /\ call_stack' = << >>
    /\ trace' = Quiet("stream_exhausted", None)
    /\ UNCHANGED <<accumulated_text, fragments_consumed, last_exec_command,
                   last_verify_command, message_history, system_info,
                   streams_started, exit_code>>

(***************************************************************************)
(* Conversation Feedback Loop: VerificationOutput.handle_verification_     *)
(* status. It appends the follow-up message and calls get_response once;   *)
(* the generator of that call is returned and dropped by the caller.       *)
(***************************************************************************)
handle_verification_status(success, result, history, info, last_exec, last_verify) ==
    LET msg == verification_message(success, result, last_exec, last_verify)
    IN  IF add_message_raises(msg, "user")
        THEN [raised |-> TRUE, history |-> history,
              messages_added |-> 0, get_response_calls |-> 0]
        ELSE LET h == add_message(history, msg, "user")
             IN  [raised |-> get_response_raises(h, info), history |-> h,
                  messages_added |-> 1, get_response_calls |-> 1]

(***************************************************************************)
(* Step Confirmation: CommandProcessor.get_command_confirmation.           *)
(***************************************************************************)
\* what SimpleTerminal.get_input prints before it returns None
input_notices(line) == IF line = None THEN {"input interrupted"} ELSE {}

\* the response with an empty line taken as no
confirmation_answer_empty_is_no(response) ==
    IF ~Truthy(response) \/ Strip(response) = << >> THEN <<"no">> ELSE response

\* the response after `if not response or response.strip() == ""`
confirmation_answer(response) ==
    IF ~Truthy(response) \/ Strip(response) = << >> THEN <<"yes">> ELSE response

\* `response and response.lower() in ['yes', 'y', 'no', 'n']`
is_recognised(answer) ==
    Truthy(answer) /\ Lower(answer) \in {<<"yes">>, <<"y">>, <<"no">>, <<"n">>}

\* the test made with == 'no' instead of startswith('n')
is_negative_only_no(answer) == Lower(answer) = <<"no">>

\* `response.lower().startswith('n')`: the first word starts with the letter n
is_negative(answer) ==
    Lower(answer) # << >> /\ Head(Lower(answer)) \in {"n", "no"}

\* one pass of the prompt loop of get_command_confirmation and, on a
\* recognised answer, the rest of the function up to the point where it
\* returns, raises or has handed the next generator to a streaming session
GetCommandConfirmation(response, o) ==
    /\ pc = "confirmation"
    /\ LET answer == confirmation_answer(response)
           base == [Quiet("get_command_confirmation", response) EXCEPT
                      !.notices = input_notices(response)]
       IN  IF ~is_recognised(answer)
           THEN /\ trace' = [base EXCEPT !.notices = @ \cup {"Please answer Yes or No"}]
                /\ UNCHANGED <<pc, call_stack, accumulated_text, fragments_consumed,
                               message_history, system_info, streams_started>>
           ELSE IF is_negative(answer)
           THEN /\ trace' = [base EXCEPT
                        !.notices = @ \cup {"Please execute the command before proceeding to the next step"},
                        !.returned = "False"]
                /\ pc' = "command_loop"
                /\ call_stack' = << >>
                /\ UNCHANGED <<accumulated_text, fragments_consumed, message_history,
                               system_info, streams_started>>
           ELSE LET rv == run_verification(last_verify_command, o)
                    runs == IF spawns_subprocess(last_verify_command) THEN 1 ELSE 0
                IN  IF unpack_raises(rv)
                    THEN \* TypeError leaves get_command_confirmation and is caught
                         \* by the outer handler of show_streaming_output
                         /\ trace' = [base EXCEPT !.notices = @ \cup {"Output error"},
                                                  !.subprocess_runs = runs,
                                                  !.returned = "raised"]
                         /\ pc' = "command_loop"
                         /\ call_stack' = << >>
                         /\ UNCHANGED <<accumulated_text, fragments_consumed,
                                        message_history, system_info, streams_started>>
                    ELSE LET info == [system_info EXCEPT
                                        !.exec_verify_info.last_verification_result = rv.result,
                                        !.exec_verify_info.last_verification_status =
                                            IF rv.success THEN "True" ELSE "False"]
                             hvs == handle_verification_status(rv.success, rv.result,
                                        message_history, info,
                                        last_exec_command, last_verify_command)
                             done == [base EXCEPT
                                        !.subprocess_runs = runs,
                                        !.messages_added = hvs.messages_added,
                                        !.returned = IF rv.success THEN "True" ELSE "False"]
                         IN  /\ system_info' = info
                             /\ message_history' = hvs.history
                             /\ IF hvs.raised \/ get_response_raises(hvs.history, info)
                                THEN /\ trace' = [done EXCEPT
                                            !.notices = @ \cup {"Error handling verification status"},
                                            !.get_response_calls = hvs.get_response_calls]
                                     /\ pc' = "command_loop"
                                     /\ call_stack' = << >>
                                     /\ UNCHANGED <<accumulated_text, fragments_consumed,
                                                    streams_started>>
                                ELSE /\ trace' = [done EXCEPT
                                            !.get_response_calls = hvs.get_response_calls + 1,
                                            !.sessions_started = 1]
                                     /\ StartSession(ReplaceTop(call_stack,
                                            [Top(call_stack) EXCEPT !.phase = "verified"]))
    /\ UNCHANGED <<last_exec_command, last_verify_command, exit_code>>

(***************************************************************************)
(* Command loop: CommandProcessor.handle_command_loop.                     *)
(***************************************************************************)
\* a loop that also returns on help
exit_commands_with_help == {<<"exit">>, <<"close">>, <<"end">>, <<"help">>}

\* the lines on which the loop returns False: the program exits
exit_commands == {<<"exit">>, <<"close">>, <<"end">>}

\* the lines on which the loop returns True: back to the main menu
menu_commands == {<<"home">>, <<"main">>, <<"menu">>}

\* one iteration of the loop: a line is read and handled
HandleCommandLoop(cmd) ==
    /\ pc = "command_loop"
    /\ LET base == [Quiet("handle_command_loop", cmd) EXCEPT !.notices = input_notices(cmd)]
           line == Strip(cmd)
       IN  IF ~Truthy(cmd)
           THEN /\ trace' = base
                /\ DropBuffer
                /\ UNCHANGED <<pc, call_stack, message_history, system_info, streams_started, exit_code>>
           ELSE IF line \in exit_commands
           THEN /\ trace' = [base EXCEPT !.returned = "False"]
                /\ pc' = "exited"
                /\ exit_code' = <<"0">>
                /\ DropBuffer
                /\ UNCHANGED <<call_stack, message_history, system_info, streams_started>>
           ELSE IF line \in menu_commands
           THEN /\ trace' = [base EXCEPT !.returned = "True"]
                /\ pc' = "main_menu"
                /\ DropBuffer
                /\ UNCHANGED <<call_stack, message_history, system_info, streams_started, exit_code>>
           ELSE IF line \in {<<"help">>, <<"clear">>}
           THEN /\ trace' = [base EXCEPT !.notices = @ \cup {line[1]}]
                /\ DropBuffer
                /\ UNCHANGED <<pc, call_stack, message_history, system_info, streams_started, exit_code>>
           ELSE IF line = <<"system">>
           THEN /\ trace' = [base EXCEPT !.notices = @ \cup {"# System Information"}]
                /\ system_info' = [system_info EXCEPT
                      !.exec_verify_info.last_exec_command =
                          IF Truthy(last_exec_command) THEN last_exec_command ELSE @,
                      !.exec_verify_info.last_verify_command =
                          IF Truthy(last_verify_command) THEN last_verify_command ELSE @]
                /\ DropBuffer
                /\ UNCHANGED <<pc, call_stack, message_history, streams_started, exit_code>>
           ELSE IF add_message_raises(line, "user")
           THEN /\ trace' = [base EXCEPT !.notices = @ \cup {"Error processing command"}]
                /\ DropBuffer
                /\ UNCHANGED <<pc, call_stack, message_history, system_info, streams_started, exit_code>>
           ELSE LET h == add_message(message_history, line, "user")
                IN  /\ message_history' = h
                    /\ UNCHANGED <<system_info, exit_code>>
                    /\ IF get_response_raises(h, system_info)
                       THEN /\ trace' = [base EXCEPT
                                   !.notices = @ \cup {"Error processing command"},
                                   !.messages_added = 1, !.get_response_calls = 1]
                            /\ DropBuffer
                            /\ UNCHANGED <<pc, call_stack, streams_started>>
                       ELSE /\ trace' = [base EXCEPT !.messages_added = 1,
                                   !.get_response_calls = 1, !.sessions_started = 1]
                            /\ StartSession(<< >>)
    /\ UNCHANGED <<last_exec_command, last_verify_command>>

(***************************************************************************)
(* Main loop: main() and CommandProcessor.handle_vendor_selection.         *)
(***************************************************************************)
\* the initial instruction handle_vendor_selection sends
task_message(operation, selection) ==
    <<"Please provide instructions for", " ">> \o operation
    \o <<" ", "operation of", " ">> \o selection

\* one iteration of the main loop up to the command loop, a streaming
\* session or the end of the process
MainMenuSelect(selection, operation) ==
    /\ pc = "main_menu"
    /\ LET base == Quiet("main", selection)
       IN  IF ~Truthy(selection)
           THEN /\ trace' = base
                /\ pc' = "exited"
                /\ exit_code' = <<"0">>
                /\ DropBuffer
                /\ UNCHANGED <<call_stack, message_history, system_info, streams_started>>
           ELSE IF selection \in Vendors
           THEN IF ~Truthy(operation)
                THEN /\ trace' = base
                     /\ pc' = "exited"
                     /\ exit_code' = <<"0">>
                     /\ DropBuffer
                     /\ UNCHANGED <<call_stack, message_history, system_info, streams_started>>
                ELSE IF operation = <<"menu">>
                THEN /\ trace' = base
                     /\ DropBuffer
                     /\ UNCHANGED <<pc, call_stack, message_history, system_info, streams_started, exit_code>>
                ELSE LET info == [system_info EXCEPT
                                    !.user_select_info.mode_type = <<"observability">>,
                                    !.user_select_info.selected_vendor = selection,
                                    !.user_select_info.selected_operation = operation]
                         msg == task_message(operation, selection)
                         h == add_message(message_history, msg, "user")
                     IN  /\ system_info' = info
                         /\ exit_code' = exit_code
                         /\ IF add_message_raises(msg, "user")
                            THEN /\ trace' = [base EXCEPT !.notices = {"Error processing command"}]
                                 /\ pc' = "command_loop"
                                 /\ DropBuffer
                                 /\ UNCHANGED <<call_stack, message_history, streams_started>>
                            ELSE /\ message_history' = h
                                 /\ IF get_response_raises(h, info)
                                    THEN /\ trace' = [base EXCEPT
                                                !.notices = {"Error processing command"},
                                                !.messages_added = 1, !.get_response_calls = 1]
                                         /\ pc' = "command_loop"
                                         /\ DropBuffer
                                         /\ UNCHANGED <<call_stack, streams_started>>
                                    ELSE /\ trace' = [base EXCEPT !.messages_added = 1,
                                                !.get_response_calls = 1, !.sessions_started = 1]
                                         /\ StartSession(<< >>)
           ELSE /\ trace' = base
                /\ system_info' = [system_info EXCEPT
                      !.user_select_info.mode_type = <<"infrastructure">>,
                      !.user_select_info.selected_platform = selection]
                /\ pc' = "command_loop"
                /\ DropBuffer
                /\ UNCHANGED <<call_stack, message_history, streams_started, exit_code>>
    /\ UNCHANGED <<last_exec_command, last_verify_command>>

(***************************************************************************)
(* Specification.                                                          *)
(***************************************************************************)
Next ==
    \/ \E selection \in MenuSelections : \E operation \in ObsOperations :
          MainMenuSelect(selection, operation)
    \/ \E cmd \in CommandInputs : HandleCommandLoop(cmd)
    \/ \E content \in Fragments : ShowStreamingOutput_Fragment(content)
    \/ ShowStreamingOutput_Exhausted
    \/ \E response \in ConfirmationInputs : \E o \in SubprocessOutcomes :
          GetCommandConfirmation(response, o)

Spec == Init /\ [][Next]_vars

(***************************************************************************)
(* The verifier on its own: a terminal that holds some commands and a      *)
(* broker; run_verification is called on the held verification command,    *)
(* and handle_verification_status on the pair it returned.                 *)
(***************************************************************************)
\* execution commands the terminal can hold
ExecCommands == { None, <<"ls">> }

\* verification commands the terminal can hold
VerifyCommands == { None, << >>, <<"foo", " ", "-", "v">> }

\* the selections the broker's system_info can hold
UserSelections ==
    { [mode_type |-> << >>, selected_vendor |-> << >>,
       selected_operation |-> << >>, selected_platform |-> << >>],
      [mode_type |-> <<"observability">>, selected_vendor |-> <<"datadog_agent">>,
       selected_operation |-> <<"install">>, selected_platform |-> << >>] }

VerifierInit ==
    /\ pc = "verifier"
    /\ call_stack = << >>
    /\ accumulated_text = << >>
    /\ fragments_consumed = 0
    /\ last_exec_command \in ExecCommands
    /\ last_verify_command \in VerifyCommands
    /\ message_history = << >>
    /\ \E sel \in UserSelections :
          system_info =
            [user_select_info |-> sel,
             last_llm_response |-> None,
             exec_verify_info |-> [last_exec_command |-> None, last_verify_command |-> None,
                                   last_verification_result |-> None,
                                   last_verification_status |-> "absent"]]
    /\ streams_started = 0
    /\ exit_code = None
    /\ trace = [op |-> "init"]

\* verifier.run_verification(self.terminal.last_verify_command)
RunVerification(o) ==
    /\ pc = "verifier"
    /\ trace' = [op |-> "run_verification", outcome |-> o,
                 returned |-> run_verification(last_verify_command, o)]
    /\ UNCHANGED <<pc, call_stack, accumulated_text, fragments_consumed, last_exec_command,
                   last_verify_command, message_history, system_info, streams_started,
                   exit_code>>

\* verifier.handle_verification_status(success, result, message_broker,
\* last_exec_command, last_verify_command) on the pair just returned
HandleVerificationStatus ==
    /\ pc = "verifier"
    /\ trace.op = "run_verification"
    /\ ~unpack_raises(trace.returned)
    /\ LET hvs == handle_verification_status(trace.returned.success, trace.returned.result,
                      message_history, system_info, last_exec_command, last_verify_command)
       IN  /\ message_history' = hvs.history
           /\ trace' = [op |-> "handle_verification_status",
                        success |-> trace.returned.success,
                        result |-> trace.returned.result,
                        messages_added |-> hvs.messages_added,
                        raised |-> hvs.raised]
    /\ UNCHANGED <<pc, call_stack, accumulated_text, fragments_consumed, last_exec_command,
                   last_verify_command, system_info, streams_started, exit_code>>

VerifierNext ==
    \/ \E o \in VerifierOutcomes : RunVerification(o)
    \/ HandleVerificationStatus

VerifierSpec == VerifierInit /\ [][VerifierNext]_vars

(***************************************************************************)
(* The broker on its own: add_message and get_response are called with     *)
(* arbitrary arguments on a broker that starts with an empty history.      *)
(***************************************************************************)
\* the values add_message is called with as content: None, the empty
\* string, two strings, the integer 5 and the list ["a"]
BrokerContents ==
    { None, << >>, <<"hi">>, <<"how", " ", "next">>, <<"[int]", "5">>, <<"[list]", "a">> }

\* the values add_message is called with as role
BrokerRoles == Roles \cup {"tool", "User"}

BrokerInit ==
    /\ pc = "broker"
    /\ call_stack = << >>
    /\ accumulated_text = << >>
    /\ fragments_consumed = 0
    /\ last_exec_command = None
    /\ last_verify_command = None
    /\ message_history = << >>
    /\ \E sel \in UserSelections :
          system_info =
            [user_select_info |-> sel,
             last_llm_response |-> None,
             exec_verify_info |-> [last_exec_command |-> None, last_verify_command |-> None,
                                   last_verification_result |-> None,
                                   last_verification_status |-> "absent"]]
    /\ streams_started = 0
    /\ exit_code = None
    /\ trace = [op |-> "init"]

\* message_broker.add_message(content, role)
AddMessage(content, role) ==
    /\ pc = "broker"
    /\ IF add_message_raises(content, role)
       THEN /\ trace' = [op |-> "add_message", content |-> content, role |-> role,
                         len_before |-> Len(message_history), raised |-> TRUE]
            /\ UNCHANGED message_history
       ELSE /\ trace' = [op |-> "add_message", content |-> content, role |-> role,
                         len_before |-> Len(message_history), raised |-> FALSE]
            /\ message_history' = add_message(message_history, content, role)
    /\ UNCHANGED <<pc, call_stack, accumulated_text, fragments_consumed, last_exec_command,
                   last_verify_command, system_info, streams_started, exit_code>>

\* message_broker.get_response(): it raises, or it returns the generator of
\* get_llm_response, which asks the model when it is iterated
GetResponse ==
    /\ pc = "broker"
    /\ trace' = [op |-> "get_response", len_before |-> Len(message_history),
                 raised |-> get_response_raises(message_history, system_info),
                 returned |-> IF get_response_raises(message_history, system_info)
                              THEN "raised" ELSE "generator"]
    /\ UNCHANGED <<pc, call_stack, accumulated_text, fragments_consumed, last_exec_command,
                   last_verify_command, message_history, system_info, streams_started,
                   exit_code>>

BrokerNext ==
    \/ \E content \in BrokerContents : \E role \in BrokerRoles : AddMessage(content, role)
    \/ GetResponse

BrokerSpec == BrokerInit /\ [][BrokerNext]_vars

(***************************************************************************)
(* The extractor on its own: a text grows piece by piece, as the buffer of *)
(* a streaming session does, and extract_xml_section is called on it.      *)
(***************************************************************************)
\* pieces of model output: an opening and a closing tag, a body with blanks
\* around it, a whole section, a fenced code block with language tag and
\* newline, a whole section whose tag is written in capitals, a terminate
\* pair in mixed case, a fenced code block with neither language tag nor
\* newline, a fenced code block with a newline and no language tag
Pieces ==
    { OpenTag("execution_section"),
      CloseTag("execution_section"),
      <<" ", "ls", "\n">>,
      OpenTag("execution_section") \o <<"pwd">> \o CloseTag("execution_section"),
      <<FENCE, "bash", "\n", "apt", FENCE>>,
      OpenTag("EXECUTION_SECTION") \o <<"id">> \o CloseTag("EXECUTION_SECTION"),
      OpenTag("terminate") \o CloseTag("Terminate"),
      <<FENCE, "apt", " ", "install", FENCE>>,
      <<FENCE, "\n", "ls", FENCE>> }

\* tags extract_xml_section is called with
ExtractorTags == {"execution_section", "EXECUTION_SECTION", "terminate"}

ExtractorInit ==
    /\ pc = "extractor"
    /\ call_stack = << >>
    /\ accumulated_text = << >>
    /\ fragments_consumed = 0
    /\ last_exec_command = None
    /\ last_verify_command = None
    /\ message_history = << >>
    /\ system_info =
         [user_select_info |-> [mode_type |-> << >>, selected_vendor |-> << >>,
                                selected_operation |-> << >>, selected_platform |-> << >>],
          last_llm_response |-> None,
          exec_verify_info |-> [last_exec_command |-> None, last_verify_command |-> None,
                                last_verification_result |-> None,
                                last_verification_status |-> "absent"]]
    /\ streams_started = 0
    /\ exit_code = None
    /\ trace = [op |-> "init"]

\* accumulated_text += content
ReceivePiece(content) ==
    /\ pc = "extractor"
    /\ fragments_consumed < MaxPieces
    /\ accumulated_text' = accumulate(accumulated_text, content)
    /\ fragments_consumed' = fragments_consumed + 1
    /\ trace' = [op |-> "receive"]
    /\ UNCHANGED <<pc, call_stack, last_exec_command, last_verify_command, message_history,
                   system_info, streams_started, exit_code>>

\* ResponseHandler.extract_xml_section(accumulated_text, tag)
Extract(tag) ==
    /\ pc = "extractor"
    /\ trace' = [op |-> "extract_xml_section", tag |-> tag,
                 returned |-> extract_xml_section(accumulated_text, tag)]
    /\ UNCHANGED <<pc, call_stack, accumulated_text, fragments_consumed, last_exec_command,
                   last_verify_command, message_history, system_info, streams_started,
                   exit_code>>

ExtractorNext ==
    \/ \E content \in Pieces : ReceivePiece(content)
    \/ \E tag \in ExtractorTags : Extract(tag)

ExtractorSpec == ExtractorInit /\ [][ExtractorNext]_vars

(***************************************************************************)
(* The formatter alone: section records as extract_response_sections       *)
(* returns them (every field a stripped text, possibly empty), rendered by *)
(* format_response_text.                                                   *)
(***************************************************************************)
SectionValues ==
    [think |-> <<"Let", " ", "me", " ", "reason">>,
     title |-> <<"Install", " ", "Agent">>,
     description |-> <<"Adds", " ", "repository.">>,
     execution |-> <<"apt", " ", "update">>,
     expected |-> <<"Hit:1", " ", "Done">>,
     verification |-> <<"dpkg", " ", "-l">>,
     conclusion |-> <<"Proceed", " ", "next.">>]

SectionRecords ==
    {sections \in [DOMAIN SectionValues -> {<< >>} \cup UNION {{SectionValues[f]} : f \in DOMAIN SectionValues}] :
        \A field \in DOMAIN SectionValues :
            sections[field] \in {<< >>, SectionValues[field]}}

FormatterInit ==
    /\ pc = "formatter"
    /\ call_stack = << >>
    /\ accumulated_text = << >>
    /\ fragments_consumed = 0
    /\ last_exec_command = None
    /\ last_verify_command = None
    /\ message_history = << >>
    /\ system_info =
         [user_select_info |-> [mode_type |-> << >>, selected_vendor |-> << >>,
                                selected_operation |-> << >>, selected_platform |-> << >>],
          last_llm_response |-> None,
          exec_verify_info |-> [last_exec_command |-> None, last_verify_command |-> None,
                                last_verification_result |-> None,
                                last_verification_status |-> "absent"]]
    /\ streams_started = 0
    /\ exit_code = None
    /\ trace = [op |-> "init"]

\* ConsoleFormatter.format_response_text(sections)
FormatResponseText(sections) ==
    /\ pc = "formatter"
    /\ trace' = [op |-> "format_response_text", sections |-> sections,
                 returned |-> format_response_text(sections)]
    /\ UNCHANGED <<pc, call_stack, accumulated_text, fragments_consumed, last_exec_command,
                   last_verify_command, message_history, system_info, streams_started,
                   exit_code>>

FormatterNext == \E sections \in SectionRecords : FormatResponseText(sections)

FormatterSpec == FormatterInit /\ [][FormatterNext]_vars

(***************************************************************************)
(* Properties.                                                             *)
(***************************************************************************)
\* answers at the confirmation prompt that say yes: an empty line, yes, y
AffirmativeInputs ==
    {r \in ConfirmationInputs : r # None /\ (r = << >> \/ Lower(r) \in {<<"yes">>, <<"y">>})}

\* answers at the confirmation prompt that say no
NegativeInputs ==
    {r \in ConfirmationInputs : r # None /\ Lower(r) \in {<<"no">>, <<"n">>}}

\* the last handler was get_command_confirmation
Confirmed == trace.op = "get_command_confirmation"

\* the buffer before the fragment the last handler consumed
BufferBefore ==
    SubSeq(accumulated_text, 1, Len(accumulated_text) - Len(trace.input))

\* the buffer holds a closed terminate pair in some letter case
HasTerminatePairAnyCase ==
    Contains(Lower(accumulated_text), OpenTag("terminate") \o CloseTag("terminate"))

\* the buffer holds no execution and no verification section
NoCommandSections ==
    /\ extract_xml_section(accumulated_text, "execution_section") = << >>
    /\ extract_xml_section(accumulated_text, "verification_section") = << >>

\* C1: a buffer that contains <TERMINATE></TERMINATE> is the buffer of a
\* session that has just returned with the completion notice: the marker was
\* completed by the last fragment consumed, no frame is left to consume a
\* further fragment or to ask for confirmation, whatever commands are held.
C1_TerminateEndsSession ==
    Contains(accumulated_text, TERMINATE_MARKER) =>
        /\ pc = "command_loop"
        /\ call_stack = << >>
        /\ trace.op = "stream_fragment"
        /\ trace.notices = {"Operation Complete!"}
        /\ ~Contains(BufferBefore, TERMINATE_MARKER)

\* C1 witness: the marker arrived after an execution and a verification
\* command were captured from the same stream
C1_Witness ==
    /\ Contains(accumulated_text, TERMINATE_MARKER)
    /\ fragments_consumed = 2
    /\ streams_started = 1
    /\ Truthy(last_exec_command) /\ Truthy(last_verify_command)
    /\ pc = "command_loop"

\* C2 (as claimed): a buffer that contains a closed terminate pair in any
\* letter case has ended its session; no frame consumes or asks to confirm.
C2_AnyCaseTerminates ==
    HasTerminatePairAnyCase => (pc \notin {"streaming", "confirmation"} /\ call_stack = << >>)

\* C3: strict sequencing. Only the innermost session can be consuming; every
\* outer one has exhausted its stream and has concluded its confirmation and
\* verification; a confirmation is awaited only after the stream is
\* exhausted; a session asks for confirmation at most once; and a session
\* started by the confirmation step follows an obtained verification outcome.
C3_StrictSequencing ==
    /\ \A i \in 1..Len(call_stack) :
          /\ i < Len(call_stack) =>
                (call_stack[i].phase = "verified" /\ call_stack[i].exhausted)
          /\ call_stack[i].phase \in {"confirming", "verified"} => call_stack[i].exhausted
          /\ call_stack[i].phase = "consuming" => ~call_stack[i].exhausted
          /\ call_stack[i].confirmations <= 1
          /\ call_stack[i].phase = "consuming" => call_stack[i].confirmations = 0
    /\ Cardinality({i \in 1..Len(call_stack) : call_stack[i].phase = "consuming"}) <= 1
    /\ pc = "streaming" => (call_stack # << >> /\ Top(call_stack).phase = "consuming")
    /\ pc = "confirmation" => (call_stack # << >> /\ Top(call_stack).phase = "confirming")
    /\ pc \notin {"streaming", "confirmation"} => call_stack = << >>
    /\ (Confirmed /\ trace.sessions_started = 1) =>
          /\ trace.returned \in {"True", "False"}
          /\ system_info.exec_verify_info.last_verification_status = trace.returned
          /\ Len(call_stack) >= 2

\* C3 witness: the second step waits for its confirmation while the first
\* step's session, verified, is still on the stack
C3_Witness ==
    /\ Len(call_stack) = 2
    /\ pc = "confirmation"
    /\ fragments_consumed = 2

\* C4 (as claimed): an affirmative answer with no verification command
\* spawns no subprocess and proceeds as after a successful verification.
C4_NoVerifyCommandIsSuccess ==
    (Confirmed /\ trace.input \in AffirmativeInputs /\ ~Truthy(last_verify_command)) =>
        /\ trace.subprocess_runs = 0
        /\ trace.returned = "True"
        /\ system_info.exec_verify_info.last_verification_status = "True"
        /\ trace.messages_added = 1
        /\ trace.sessions_started = 1

\* C5 (as claimed): whatever command is recorded and whatever the subprocess
\* does, run_verification returns a pair, and the caller's unpacking of the
\* result never raises.
C5_RunnerReturnsPair ==
    /\ pc = "confirmation" =>
          \A o \in SubprocessOutcomes :
              run_verification(last_verify_command, o).type = "tuple"
    /\ Confirmed => trace.returned # "raised"

\* C6 (as claimed): a session begins with both commands unset, and a session
\* whose stream supplied no command section never asks for confirmation.
C6_CommandsUnsetAtSessionStart ==
    /\ \A i \in 1..Len(call_stack) :
          call_stack[i].exec_before = None /\ call_stack[i].verify_before = None
    /\ pc = "confirmation" => ~NoCommandSections

\* C6 (amended): the commands are unset until the first stream of the run and
\* persist from then on: a stream that supplies no execution (verification)
\* section leaves the command the session began with, and a session whose
\* stream ended without marker and supplied no command section asks for
\* confirmation exactly when an earlier stream left a command.
C6_CommandsPersistAcrossSteps ==
    /\ streams_started = 0 => (last_exec_command = None /\ last_verify_command = None)
    /\ pc \in {"streaming", "confirmation"} =>
          /\ extract_xml_section(accumulated_text, "execution_section") = << >> =>
                last_exec_command = Top(call_stack).exec_before
          /\ extract_xml_section(accumulated_text, "verification_section") = << >> =>
                last_verify_command = Top(call_stack).verify_before
    /\ (pc = "confirmation" /\ NoCommandSections) =>
          (Truthy(Top(call_stack).exec_before) \/ Truthy(Top(call_stack).verify_before))
    /\ (trace.op = "stream_exhausted" /\ pc = "command_loop") =>
          (~Truthy(last_exec_command) /\ ~Truthy(last_verify_command))

\* C6 witness: a stream without any command section has ended and the
\* confirmation is asked for the commands of the step before
C6_Witness ==
    /\ pc = "confirmation"
    /\ NoCommandSections
    /\ fragments_consumed > 0
    /\ Truthy(last_verify_command)
    /\ Len(call_stack) = 2

\* C7 (as claimed): a stream that ends without having delivered a fragment
\* is reported as "no content received" and does not lead to confirmation.
C7_EmptyStreamIsAnError ==
    (trace.op = "stream_exhausted" /\ fragments_consumed = 0) =>
        /\ "No content received from generator" \in trace.notices
        /\ pc # "confirmation"

\* C8 (as claimed): an affirmative answer leads to a verification outcome,
\* and after it exactly one user message has been appended and exactly one
\* streaming session has been started on a newly requested response (the
\* model is asked when a session iterates the generator it was handed).
C8_OneFollowUpPerOutcome ==
    (Confirmed /\ trace.input \in AffirmativeInputs) =>
        /\ trace.returned \in {"True", "False"}
        /\ trace.messages_added = 1
        /\ message_history # << >>
        /\ message_history[Len(message_history)].role = "user"
        /\ trace.sessions_started = 1
        /\ pc = "streaming"

\* C9 (as claimed): an absent input at the confirmation prompt confirms
\* nothing: no verification is run and no follow-up is sent.
C9_AbsentInputIsSkipped ==
    (Confirmed /\ trace.input = None) =>
        /\ trace.returned \notin {"True", "raised"}
        /\ trace.subprocess_runs = 0
        /\ trace.messages_added = 0
        /\ trace.get_response_calls = 0
        /\ trace.sessions_started = 0

\* C10: a negative answer makes get_command_confirmation return False with
\* no subprocess run, no message appended and no response requested; the
\* history, the commands and the stored verification outcome stay as they
\* were and no session is started.
C10_NegativeAnswerChangesNothing ==
    [][(pc = "confirmation" /\ trace'.op = "get_command_confirmation"
        /\ trace'.input \in NegativeInputs) =>
          /\ trace'.returned = "False"
          /\ trace'.subprocess_runs = 0
          /\ trace'.messages_added = 0
          /\ trace'.get_response_calls = 0
          /\ trace'.sessions_started = 0
          /\ message_history' = message_history
          /\ last_exec_command' = last_exec_command
          /\ last_verify_command' = last_verify_command
          /\ system_info' = system_info
          /\ streams_started' = streams_started
          /\ pc' = "command_loop"]_vars

\* C10 witness: a negative answer was given while a verification command was
\* recorded, and the function has returned False
C10_Witness ==
    /\ Confirmed
    /\ trace.input \in NegativeInputs
    /\ trace.returned = "False"
    /\ Truthy(last_verify_command)
    /\ pc = "command_loop"


\* C11: when the stream of a session is exhausted (no marker was seen, or the
\* session would have returned) and an execution or a verification command
\* is held, the session is still active and waits in the confirmation; when
\* neither is held it has returned to the command loop and has printed and
\* asked nothing. The confirmation is never awaited with no command held.
C11_ExhaustedHandsOffIffCommand ==
    /\ trace.op = "stream_exhausted" =>
          /\ ~Contains(accumulated_text, TERMINATE_MARKER)
          /\ IF Truthy(last_exec_command) \/ Truthy(last_verify_command)
             THEN /\ pc = "confirmation"
                  /\ call_stack # << >>
                  /\ Top(call_stack).phase = "confirming"
                  /\ Top(call_stack).exhausted
             ELSE /\ pc = "command_loop"
                  /\ call_stack = << >>
                  /\ trace.notices = {}
    /\ pc = "confirmation" => (Truthy(last_exec_command) \/ Truthy(last_verify_command))

\* C11 witness: a stream that delivered an execution section only has ended
\* and the session waits in the confirmation
C11_Witness ==
    /\ trace.op = "stream_exhausted"
    /\ pc = "confirmation"
    /\ fragments_consumed > 0
    /\ Truthy(last_exec_command)
    /\ ~Truthy(last_verify_command)


\* the label that opens the runner's report of a timeout
TimeoutLabel == "Timeout Error:"

\* the status line of a completed command, with the word given
StatusLine(word, returncode) ==
    <<"Status:", " ", word, " ", "(return code:", " ", IntStr(returncode), ")">>

C13_MissingCommandIsReportedAsNotFound ==
    (trace.op = "run_verification" /\ Truthy(last_verify_command)
     /\ trace.outcome \in MissingCommandOutcomes) =>
        /\ trace.returned.type = "tuple"
        /\ ~trace.returned.success
        /\ Head(trace.returned.result) = "Command Not Found:"

\* the instruction to give the next step or to emit the termination marker
NextStepInstruction ==
    <<"Please provide the next step. However, if there are no more steps remaining, include",
      " ">> \o TERMINATE_MARKER

\* the instruction to troubleshoot
TroubleshootInstruction ==
    <<"Please analyze the output and provide specific troubleshooting steps to resolve this issue.">>

\* C14: handle_verification_status appends one user message that names the
\* executed command, the verification command and the verification result;
\* after a success it carries the instruction to give the next step or emit
\* the termination marker, after a failure it carries the troubleshooting
\* instruction, not the next-step instruction, and no termination marker
\* unless one of the three facts holds one.
C14_FollowUpMessageByOutcome ==
    trace.op = "handle_verification_status" =>
        /\ trace.messages_added = 1
        /\ message_history # << >>
        /\ LET last == message_history[Len(message_history)]
               msg == last.content
           IN  /\ last.role = "user"
               /\ Contains(msg, <<"Executed Command:", " ">> \o last_exec_command \o <<"\n">>)
               /\ Contains(msg, <<"Verification Command:", " ">> \o last_verify_command \o <<"\n">>)
               /\ Contains(msg, <<"Verification Result:", " ">> \o trace.result \o <<"\n">>)
               /\ IF trace.success
                  THEN /\ Contains(msg, NextStepInstruction)
                       /\ ~Contains(msg, TroubleshootInstruction)
                  ELSE /\ Contains(msg, TroubleshootInstruction)
                       /\ ~Contains(msg, NextStepInstruction)
                       /\ (~Contains(last_exec_command, TERMINATE_MARKER)
                           /\ ~Contains(last_verify_command, TERMINATE_MARKER)
                           /\ ~Contains(trace.result, TERMINATE_MARKER))
                              => ~Contains(msg, TERMINATE_MARKER)

\* C14 witness: the follow-up of a failed verification was appended after
\* the follow-up of a successful one
C14_Witness ==
    /\ trace.op = "handle_verification_status"
    /\ ~trace.success
    /\ Len(message_history) = 2
    /\ Contains(message_history[1].content, NextStepInstruction)
    /\ Truthy(last_exec_command)


\* the step get_command_confirmation takes on the line `response` while the
\* subprocess does o ends in the state given by the arguments
ConfirmationLeadsTo(response, o, p, cs, text, n, exec, verify, h, info, streams, code, t) ==
    ENABLED (/\ GetCommandConfirmation(response, o)
             /\ pc' = p
             /\ call_stack' = cs
             /\ accumulated_text' = text
             /\ fragments_consumed' = n
             /\ last_exec_command' = exec
             /\ last_verify_command' = verify
             /\ message_history' = h
             /\ system_info' = info
             /\ streams_started' = streams
             /\ exit_code' = code
             /\ trace' = t)

\* C15: an empty line at the confirmation prompt is an affirmative answer.
\* Whenever the confirmation reads an empty line, reading yes in the same
\* state with the same behaviour of the subprocess ends in the same state:
\* the same subprocess run, the same message appended to the same history,
\* the same stored outcome, the same session started or the same return;
\* only the line read differs. The same holds with the two lines exchanged.
C15_EmptyLineIsYes ==
    [][\A o \in SubprocessOutcomes :
        \E p \in {pc'} : \E cs \in {call_stack'} : \E text \in {accumulated_text'} :
        \E n \in {fragments_consumed'} : \E exec \in {last_exec_command'} :
        \E verify \in {last_verify_command'} : \E h \in {message_history'} :
        \E info \in {system_info'} : \E streams \in {streams_started'} :
        \E code \in {exit_code'} : \E t \in {trace'} :
            /\ GetCommandConfirmation(<< >>, o) =>
                  ConfirmationLeadsTo(<<"yes">>, o, p, cs, text, n, exec, verify, h, info,
                                      streams, code, [t EXCEPT !.input = <<"yes">>])
            /\ GetCommandConfirmation(<<"yes">>, o) =>
                  ConfirmationLeadsTo(<< >>, o, p, cs, text, n, exec, verify, h, info,
                                      streams, code, [t EXCEPT !.input = << >>])]_vars

\* C15 witness: an empty line was read, the verification command was run,
\* the follow-up was appended and the next session has started
C15_Witness ==
    /\ Confirmed
    /\ trace.input = << >>
    /\ trace.subprocess_runs = 1
    /\ trace.messages_added = 1
    /\ trace.sessions_started = 1
    /\ pc = "streaming"


\* lines the claim counts as recognised at the confirmation prompt: yes, y,
\* no, n in any letter case, and the empty (or blank) line
RecognisedInputs ==
    {r \in ConfirmationInputs :
        r # None /\ (Strip(r) = << >> \/ Lower(r) \in {<<"yes">>, <<"y">>, <<"no">>, <<"n">>})}

\* C16 (as claimed): every input that is not a recognised line is answered
\* with the request to answer Yes or No and leaves the prompt loop waiting,
\* with no verification run, no message appended and nothing returned; and
\* whenever the confirmation goes on to the verification, the line read was
\* a recognised affirmative one.
C16_UnrecognisedInputReprompts ==
    /\ (Confirmed /\ trace.input \notin RecognisedInputs) =>
          /\ "Please answer Yes or No" \in trace.notices
          /\ pc = "confirmation"
          /\ trace.returned = "none"
          /\ trace.subprocess_runs = 0
          /\ trace.messages_added = 0
          /\ trace.sessions_started = 0
    /\ (Confirmed /\ trace.returned \in {"True", "False", "raised"}
        /\ "Please execute the command before proceeding to the next step" \notin trace.notices) =>
          (trace.input \in RecognisedInputs /\ ~is_negative(trace.input))

\* C17: a fragment step overwrites last_exec_command (last_verify_command)
\* only with a non-empty execution (verification) section extracted from
\* the buffer that includes the fragment, and then with exactly that value;
\* when the section extracted is empty the field keeps its value. (A
\* fragment that completes the termination marker ends the session before
\* anything is extracted, and so does a fragment on which the extraction
\* fails: both fields keep their values.) No other step changes the two
\* fields.
C17_CommandsOverwrittenOnlyByNonEmptySection ==
    [][LET extracted_exec == extract_xml_section(accumulated_text', "execution_section")
           extracted_verify == extract_xml_section(accumulated_text', "verification_section")
           marker == Contains(accumulated_text', TERMINATE_MARKER)
           updated == ~marker /\ "extraction" \notin trace'.notices
       IN  IF pc = "streaming" /\ trace'.op = "stream_fragment"
           THEN /\ last_exec_command' # last_exec_command =>
                      (extracted_exec # << >> /\ last_exec_command' = extracted_exec)
                /\ last_verify_command' # last_verify_command =>
                      (extracted_verify # << >> /\ last_verify_command' = extracted_verify)
                /\ (updated /\ extracted_exec # << >>) => last_exec_command' = extracted_exec
                /\ (updated /\ extracted_verify # << >>) =>
                      last_verify_command' = extracted_verify
                /\ ~updated => UNCHANGED <<last_exec_command, last_verify_command>>
           ELSE UNCHANGED <<last_exec_command, last_verify_command>>]_vars

\* C17 witness: in the second session a fragment completed an execution
\* section that replaced the command of the first step, while the
\* verification command of the first step, not supplied again, is kept
C17_Witness ==
    /\ pc = "streaming"
    /\ trace.op = "stream_fragment"
    /\ Len(call_stack) = 2
    /\ Truthy(Top(call_stack).exec_before)
    /\ Truthy(Top(call_stack).verify_before)
    /\ last_exec_command # Top(call_stack).exec_before
    /\ last_exec_command = extract_xml_section(accumulated_text, "execution_section")
    /\ extract_xml_section(accumulated_text, "verification_section") = << >>
    /\ last_verify_command = Top(call_stack).verify_before


\* C18: the history never holds more than max_history messages. An accepted
\* add_message makes the new message the last one; the messages before it
\* are the most recent ones of the history before the call, in their order:
\* all of them when there was room, all but the oldest when the history was
\* full.
C18_BoundedFifoHistory ==
    [][/\ Len(message_history') <= max_history
       /\ (trace'.op = "add_message" /\ ~trace'.raised) =>
            LET old == message_history
                new == message_history'
                dropped == IF Len(old) = max_history THEN 1 ELSE 0
            IN  /\ Len(new) = Len(old) + 1 - dropped
                /\ new[Len(new)] = [role |-> trace'.role, content |-> trace'.content]
                /\ \A i \in 1..(Len(new) - 1) : new[i] = old[i + dropped]]_vars

\* C18 witness: a message was appended to a full history, and the message
\* that is now the oldest differs from the new one
C18_Witness ==
    /\ trace.op = "add_message"
    /\ ~trace.raised
    /\ trace.len_before = max_history
    /\ Len(message_history) = max_history
    /\ message_history[1] # message_history[Len(message_history)]

\* contents add_message must refuse: nothing, the empty string, and values
\* that are not strings
RefusedContents == { None, << >>, <<"[int]", "5">>, <<"[list]", "a">> }

\* C19: every message of the history has one of the three roles and a
\* non-empty string as content; add_message called with a refused content
\* or with another role raises and leaves the history as it was;
\* get_response called on an empty history raises and hands out no
\* generator on which the model could be asked.
C19_OnlyValidMessagesEnterHistory ==
    [][/\ \A i \in 1..Len(message_history') :
            /\ message_history'[i].role \in {"system", "user", "assistant"}
            /\ message_history'[i].content \notin RefusedContents
       /\ (trace'.op = "add_message"
           /\ (trace'.content \in RefusedContents
               \/ trace'.role \notin {"system", "user", "assistant"})) =>
            (trace'.raised /\ message_history' = message_history)
       /\ (trace'.op = "get_response" /\ message_history = << >>) =>
            (trace'.raised /\ trace'.returned = "raised"
             /\ streams_started' = streams_started)]_vars

\* C19 witness: add_message was called with a string and a role that is
\* none of the three on a history that holds a message, and has raised
C19_Witness ==
    /\ trace.op = "add_message"
    /\ trace.raised
    /\ trace.content = <<"hi">>
    /\ trace.role = "tool"
    /\ Len(message_history) = 1


\* the text holds an opening tag and, after it, a closing tag
PairPresent(text, tag) ==
    \E i \in Occurrences(text, OpenTag(tag)) :
        \E j \in Occurrences(text, CloseTag(tag)) : j >= i + Len(OpenTag(tag))

\* what stands between the first opening tag and the first closing tag that
\* follows it, with the blanks and newlines around it removed
TrimmedFirstBody(text, tag) ==
    LET i == Min(Occurrences(text, OpenTag(tag)))
        from == i + Len(OpenTag(tag))
        to == Min({j \in Occurrences(text, CloseTag(tag)) : j >= from})
        body == SubSeq(text, from, to - 1)
        inner == {k \in 1..Len(body) : body[k] \notin {" ", "\n"}}
    IN  IF inner = {} THEN << >>
        ELSE SubSeq(body, Min(inner), CHOOSE k \in inner : \A m \in inner : m <= k)

\* the body holds a fenced code block: an opening and a closing fence
HasFencedBlock(body) == Cardinality(Occurrences(body, <<FENCE>>)) >= 2

\* the body of the section the last call of the extractor looked for
ExtractedFrom == TrimmedFirstBody(accumulated_text, trace.tag)

LanguageTags == {"xml", "bash", "shell"}

\* the interior of the first fenced code block of a body: what stands
\* between the first two fences, without a language tag that follows the
\* opening fence (a listed name, or a word that ends the fence line), and
\* without the blanks and newlines around it
FencedInterior(body) ==
    LET fences == Occurrences(body, <<FENCE>>)
        p == Min(fences)
        q == Min(fences \ {p})
        between == SubSeq(body, p + 1, q - 1)
        tagged == /\ between # << >>
                  /\ \/ Head(between) \in LanguageTags
                     \/ (IsWord(Head(between)) /\ Len(between) >= 2 /\ between[2] = "\n")
    IN  Strip(IF tagged THEN Tail(between) ELSE between)

\* C21 (as claimed): when the trimmed body of the first pair holds a fenced
\* code block, extract_xml_section returns the interior of that block, with
\* no fence, no language tag and every word of the command; when it holds
\* none it returns the trimmed body.
C21_FencedBodyYieldsInterior ==
    (trace.op = "extract_xml_section"
     /\ trace.tag \notin {"terminate", "TERMINATE", "Terminate"}
     /\ PairPresent(accumulated_text, trace.tag)) =>
        trace.returned = IF HasFencedBlock(ExtractedFrom)
                         THEN FencedInterior(ExtractedFrom) ELSE ExtractedFrom


\* the last step consumed a fragment on which the try block of the loop
\* body failed
FragmentFailed ==
    /\ trace.op = "stream_fragment"
    /\ trace.notices \cap {"extraction", "formatting"} # {}

\* C22: a fragment on which the extraction, the update of the commands or
\* the formatting fails is added to the buffer and shown as raw accumulated
\* text; nothing is reported as an output error and the session stays
\* active and consuming. From there the end of the stream still leads to
\* the hand-off (or the return) that the commands held call for, and a
\* further fragment that completes the termination marker still ends the
\* session with the completion notice.
C22_FailureDegradesToRawText ==
    FragmentFailed =>
        /\ "raw accumulated text" \in trace.notices
        /\ "Output error" \notin trace.notices
        /\ Len(accumulated_text) >= Len(trace.input)
        /\ SubSeq(accumulated_text, Len(accumulated_text) - Len(trace.input) + 1,
                  Len(accumulated_text)) = trace.input
        /\ pc = "streaming"
        /\ call_stack # << >>
        /\ Top(call_stack).phase = "consuming"
        /\ ENABLED (/\ ShowStreamingOutput_Exhausted
                    /\ pc' = IF Truthy(last_exec_command) \/ Truthy(last_verify_command)
                             THEN "confirmation" ELSE "command_loop")
        /\ fragments_consumed < MaxFrags =>
              \A content \in Fragments :
                  Contains(accumulated_text \o content, TERMINATE_MARKER) =>
                      ENABLED (/\ ShowStreamingOutput_Fragment(content)
                               /\ pc' = "command_loop"
                               /\ call_stack' = << >>
                               /\ trace'.notices = {"Operation Complete!"})

\* C22 witness: the extraction failed on the first fragment of a stream,
\* which held a whole execution section; the command was not recorded and
\* the session goes on
C22_Witness ==
    /\ FragmentFailed
    /\ "extraction" \in trace.notices
    /\ fragments_consumed = 1
    /\ extract_xml_section(accumulated_text, "execution_section") # << >>
    /\ last_exec_command = None
    /\ pc = "streaming"


(***************************************************************************)
(* C23. Within a session the buffer is the concatenation, in arrival       *)
(* order, of the fragments consumed so far: it is empty when the session   *)
(* starts, every consumed fragment is appended at its end, and nothing     *)
(* else touches it while the session consumes. A section split over two    *)
(* fragments is therefore seen whole: after the fragments                  *)
(* '<execution_section>apt inst' and 'all foo</execution_section>' the     *)
(* last exec command is 'apt install foo' and the rendering has an execute *)
(* block and no verification block.                                        *)
(***************************************************************************)
\* the characters of a rendering: the texts of its spans, joined
RECURSIVE plain(_)
plain(rendering) ==
    IF rendering = << >> THEN << >> ELSE Head(rendering).text \o plain(Tail(rendering))

\* 'apt install foo'; the word install is the token pair inst, all
AptInstallFoo == <<"apt", " ", "inst", "all", " ", "foo">>

SplitExecFirst == <<"<", "execution_section", ">", "apt", " ", "inst">>

SplitExecSecond == <<"all", " ", "foo", "<", "/", "execution_section", ">">>

\* the fragment just consumed was extracted and rendered without a failure
FragmentRendered ==
    /\ trace.op = "stream_fragment"
    /\ trace.notices = {}
    /\ pc = "streaming"

C23_BufferIsConcatenationOfFragments ==
    [][/\ trace'.sessions_started = 1 =>
              (accumulated_text' = << >> /\ fragments_consumed' = 0)
       /\ trace'.op = "stream_fragment" =>
              /\ accumulated_text' = accumulated_text \o trace'.input
              /\ fragments_consumed' = fragments_consumed + 1
       /\ (pc = "streaming" /\ trace'.op # "stream_fragment") =>
              UNCHANGED <<accumulated_text, fragments_consumed>>
       /\ (FragmentRendered' /\ accumulated_text = SplitExecFirst
             /\ trace'.input = SplitExecSecond) =>
              /\ last_exec_command' = AptInstallFoo
              /\ system_info'.last_llm_response.execution = AptInstallFoo
              /\ Contains(plain(format_response_text(system_info'.last_llm_response)),
                          <<"Execute Command:", "\n", "\n">> \o AptInstallFoo)
              /\ ~Contains(plain(format_response_text(system_info'.last_llm_response)),
                           <<"Verify Command:">>)]_vars

C23_Witness ==
    /\ FragmentRendered
    /\ fragments_consumed = 2
    /\ trace.input = SplitExecSecond
    /\ accumulated_text = SplitExecFirst \o SplitExecSecond
    /\ last_exec_command = AptInstallFoo


(***************************************************************************)
(* C24. format_response_text renders one block for each of title,          *)
(* description, execution, expected, verification, conclusion exactly when *)
(* that field is non-empty, the blocks always in this order, each command  *)
(* under its own header between two separator lines, and renders nothing   *)
(* of think; section records that agree on the six rendered fields (equal  *)
(* records in particular) have the same rendering.                         *)
(***************************************************************************)
RenderedFields ==
    <<"title", "description", "execution", "expected", "verification", "conclusion">>

\* the words of the section values, think included
SectionWords ==
    UNION {{SectionValues[f][i] : i \in DOMAIN SectionValues[f]} \ {" "} :
             f \in DOMAIN SectionValues}

IsSectionWord(token) == token \in SectionWords

\* the values of the rendered fields, in the fixed order
RECURSIVE ValuesInOrder(_, _)
ValuesInOrder(sections, fields) ==
    IF fields = << >> THEN << >>
    ELSE sections[Head(fields)] \o ValuesInOrder(sections, Tail(fields))

Count(text, token) == Len(SelectSeq(text, LAMBDA t : t = token))

RenderedAsClaimed(sections, rendering) ==
    LET text == plain(rendering)
        rules == (IF sections.execution # << >> THEN 2 ELSE 0)
                 + (IF sections.verification # << >> THEN 2 ELSE 0)
    IN  /\ SelectSeq(text, IsSectionWord)
             = SelectSeq(ValuesInOrder(sections, RenderedFields), IsSectionWord)
        /\ \A field \in {RenderedFields[i] : i \in DOMAIN RenderedFields} :
              sections[field] # << >> <=> Contains(text, SectionValues[field])
        /\ ~Contains(text, SectionValues.think)
        /\ sections.title # << >> <=> Contains(text, <<"\n", "##", " ">> \o sections.title)
        /\ sections.title = << >> => Count(text, "##") = 0
        /\ Count(text, "Execute Command:") = (IF sections.execution # << >> THEN 1 ELSE 0)
        /\ sections.execution # << >> =>
              Contains(text, <<RULE, "\n", "Execute Command:", "\n", "\n">>
                               \o sections.execution \o <<"\n", RULE>>)
        /\ Count(text, "Expected Outcome:") = (IF sections.expected # << >> THEN 1 ELSE 0)
        /\ Count(text, "Verify Command:") = (IF sections.verification # << >> THEN 1 ELSE 0)
        /\ sections.verification # << >> =>
              Contains(text, <<RULE, "\n", "Verify Command:", "\n", "\n">>
                               \o sections.verification \o <<"\n", RULE>>)
        /\ Count(text, RULE) = rules

C24_BlocksIffNonEmptyInFixedOrder ==
    [][/\ trace'.op = "format_response_text" =>
              RenderedAsClaimed(trace'.sections, trace'.returned)
       /\ (trace.op = "format_response_text" /\ trace'.op = "format_response_text"
             /\ \A i \in DOMAIN RenderedFields :
                   trace.sections[RenderedFields[i]] = trace'.sections[RenderedFields[i]]) =>
              trace'.returned = trace.returned]_vars

C24_Witness ==
    /\ trace.op = "format_response_text"
    /\ trace.sections.think # << >>
    /\ trace.sections.title = << >>
    /\ trace.sections.execution # << >>
    /\ trace.sections.verification # << >>
    /\ trace.sections.expected = << >>
    /\ Len(trace.returned) = 14


(***************************************************************************)
(* C25. A failure while a free-text command is appended to the history or  *)
(* a response is requested for it is shown as an error message and the     *)
(* command loop prompts again, the process still running: this is so when  *)
(* the broker refuses the message or the prompt cannot be generated, and   *)
(* when the transport fails, whose error arrives as the text of a          *)
(* fragment, that text is in what the session shows and the session ends   *)
(* at the command prompt.                                                  *)
(***************************************************************************)
\* the fragment get_llm_response yields when the completion call fails
TransportErrorFragment == <<"\n", "Error:", " ", "Rate limit reached.">>

\* the lines the command loop handles itself
LoopCommands ==
    {<<"exit">>, <<"close">>, <<"end">>, <<"home">>, <<"main">>, <<"menu">>, <<"help">>,
     <<"clear">>, <<"system">>}

\* the step handled a free-text command
FreeTextCommand ==
    /\ trace.op = "handle_command_loop"
    /\ Truthy(trace.input)
    /\ Strip(trace.input) \notin LoopCommands

C25_LoopFailuresAreShownAndReprompt ==
    [][/\ (FreeTextCommand' /\ trace'.sessions_started = 0) =>
              /\ "Error processing command" \in trace'.notices
              /\ pc' = "command_loop"
              /\ exit_code' = exit_code
       /\ (pc = "streaming" /\ trace'.op = "stream_fragment"
             /\ accumulated_text' = TransportErrorFragment /\ trace'.notices = {}) =>
              /\ Contains(plain(format_response_text(system_info'.last_llm_response)),
                          <<"Error:">>)
              /\ pc' = "streaming"
       /\ (trace'.op = "stream_exhausted" /\ accumulated_text = TransportErrorFragment) =>
              /\ pc' = "command_loop"
              /\ exit_code' = exit_code]_vars


(***************************************************************************)
(* C26. The command loop returns only on exit, close or end, after which   *)
(* the process has ended with exit code 0, or on menu, main or home, after *)
(* which the main menu is shown. Every other line keeps the control inside *)
(* the loop: an absent or empty line, help, clear and system lead straight *)
(* to the next prompt, a free-text command to the next prompt or into a    *)
(* streaming session, and a session and its confirmations end only at the  *)
(* command prompt. With end-of-input at every prompt the loop never ends.  *)
(***************************************************************************)
ExitClass == {<<"exit">>, <<"close">>, <<"end">>}

MenuClass == {<<"menu">>, <<"main">>, <<"home">>}

\* the positions of the control inside handle_command_loop
InsideLoop == {"command_loop", "streaming", "confirmation"}

C26_LoopReturnsOnlyOnExitOrMenu ==
    [][/\ (pc = "command_loop" /\ trace'.op = "handle_command_loop") =>
              LET cmd == trace'.input
                  line == IF cmd = None THEN None ELSE Strip(cmd)
              IN  /\ (cmd # None /\ line \in ExitClass) =>
                        (trace'.returned = "False" /\ pc' = "exited" /\ exit_code' = <<"0">>)
                  /\ (cmd # None /\ line \in MenuClass) =>
                        (trace'.returned = "True" /\ pc' = "main_menu"
                           /\ exit_code' = exit_code)
                  /\ (cmd = None \/ line \notin ExitClass \cup MenuClass) =>
                        (trace'.returned = "none" /\ pc' \in InsideLoop
                           /\ exit_code' = exit_code)
                  /\ (cmd \in {None, << >>} \/ line \in {<<"help">>, <<"clear">>, <<"system">>}) =>
                        pc' = "command_loop"
       /\ (pc \in {"streaming", "confirmation"}) =>
              (pc' \in InsideLoop /\ exit_code' = exit_code)
       /\ pc = "command_loop" => ENABLED (HandleCommandLoop(None) /\ pc' = "command_loop")]_vars

C26_Witness ==
    /\ pc = "command_loop"
    /\ trace.op = "handle_command_loop"
    /\ trace.input = None
    /\ message_history # << >>
    /\ streams_started > 0


(***************************************************************************)
(* C27. The outcome of a session depends only on the concatenation of its  *)
(* fragments: however the response text is split, the session that started *)
(* from the same commands ends with the termination decision and the last  *)
(* exec and verify commands of the session that receives the whole text as *)
(* one fragment. Stated for sessions whose fragments are extracted and     *)
(* rendered without a failure.                                             *)
(***************************************************************************)
\* the outcome of the session that consumes text as a single fragment
OneFragmentOutcome(exec_before, verify_before, text) ==
    IF Contains(text, TERMINATE_MARKER)
    THEN [terminated |-> TRUE, exec |-> exec_before, verify |-> verify_before]
    ELSE [terminated |-> FALSE,
          exec |-> IF extract_xml_section(text, "execution_section") # << >>
                   THEN extract_xml_section(text, "execution_section") ELSE exec_before,
          verify |-> IF extract_xml_section(text, "verification_section") # << >>
                     THEN extract_xml_section(text, "verification_section")
                     ELSE verify_before]

\* no failure was injected into the fragment just consumed
NoFailureNotice == trace.notices \subseteq {"Operation Complete!"}

C27_OutcomeIndependentOfSplit ==
    [][(/\ pc = "streaming"
        /\ trace'.op = "stream_fragment"
        /\ NoFailureNotice'
        /\ fragments_consumed = 0 \/ (trace.op = "stream_fragment" /\ NoFailureNotice)) =>
          [terminated |-> "Operation Complete!" \in trace'.notices,
           exec |-> last_exec_command',
           verify |-> last_verify_command']
            = OneFragmentOutcome(Top(call_stack).exec_before, Top(call_stack).verify_before,
                                 accumulated_text')]_vars


(***************************************************************************)
(* C28. Whatever the terminal has done, every message of the history has   *)
(* the role user. A message enters the history only as the line typed at   *)
(* the command prompt, as the task message of a vendor selection or as the *)
(* follow-up message of a verification; consuming a stream, to its end or  *)
(* to the termination signal, appends nothing, so the response text of the *)
(* model is never a message of the history.                                *)
(***************************************************************************)
\* the opening words of the messages the terminal writes itself
OwnMessageOpenings ==
    {"Please provide instructions for",
     "The previous step was successful. Here are the details:",
     "The previous step failed. Here are the details:"}

\* the messages of a history, as a set
Messages(history) == {history[i] : i \in DOMAIN history}

C28_HistoryHoldsUserMessagesOnly ==
    [][/\ \A i \in DOMAIN message_history' : message_history'[i].role = "user"
       /\ \A m \in Messages(message_history') \ Messages(message_history) :
              \/ trace'.op = "handle_command_loop" /\ m.content = Strip(trace'.input)
              \/ trace'.op \in {"main", "get_command_confirmation"}
                   /\ Head(m.content) \in OwnMessageOpenings
       /\ trace'.op \in {"stream_fragment", "stream_exhausted"} =>
              message_history' = message_history
       /\ Len(message_history') = Len(message_history) + trace'.messages_added
            \/ (Len(message_history) = max_history /\ Len(message_history') = max_history)]_vars

C28_Witness ==
    /\ Len(message_history) = 2
    /\ Head(message_history[1].content) = "Please provide instructions for"
    /\ message_history[2].content = <<"how", " ", "next">>
    /\ streams_started = 2
    /\ pc = "streaming"
    /\ accumulated_text # << >>


(***************************************************************************)
(* C29. A free-text command starts a response stream only when the system  *)
(* info holds a selected vendor and a selected operation. When one of them *)
(* is missing, as in infrastructure mode with no vendor selected earlier   *)
(* in the run, every free-text command the broker accepts ends in the      *)
(* error 'Error processing command', its message has been appended and     *)
(* stays the last message of the history, no stream is started and the     *)
(* command loop prompts again.                                             *)
(***************************************************************************)
VendorAndOperationSelected ==
    /\ Truthy(system_info.user_select_info.selected_vendor)
    /\ Truthy(system_info.user_select_info.selected_operation)

C29_StreamOnlyWithVendorAndOperation ==
    [][(pc = "command_loop" /\ FreeTextCommand') =>
          /\ trace'.sessions_started = 1 => VendorAndOperationSelected
          /\ (~VendorAndOperationSelected /\ Strip(trace'.input) # << >>) =>
                /\ "Error processing command" \in trace'.notices
                /\ trace'.sessions_started = 0
                /\ streams_started' = streams_started
                /\ trace'.messages_added = 1
                /\ message_history' # << >>
                /\ message_history'[Len(message_history')]
                     = [role |-> "user", content |-> Strip(trace'.input)]
                /\ pc' = "command_loop"
                /\ exit_code' = exit_code
                /\ system_info' = system_info]_vars

C29_Witness ==
    /\ FreeTextCommand
    /\ pc = "command_loop"
    /\ system_info.user_select_info.mode_type = <<"infrastructure">>
    /\ ~VendorAndOperationSelected
    /\ "Error processing command" \in trace.notices
    /\ Len(message_history) = 2
    /\ message_history[2].content = <<"how", " ", "next">>
    /\ streams_started = 0


(***************************************************************************)
(* C30. Extraction is stable under extension of the buffer: once the value *)
(* extracted for a section is non-empty, every further fragment leaves the *)
(* value extracted for that section as it is.                              *)
(***************************************************************************)
SectionTags ==
    {"think", "title_section", "description_section", "execution_section",
     "expected_section", "verification_section", "conclusion_section"}

C30_ExtractedSectionsAreStable ==
    [][trace'.op = "receive" =>
          \A tag \in SectionTags :
              extract_xml_section(accumulated_text, tag) # << >> =>
                  extract_xml_section(accumulated_text', tag)
                    = extract_xml_section(accumulated_text, tag)]_vars

C30_Witness ==
    /\ trace.op = "receive"
    /\ fragments_consumed = MaxPieces
    /\ extract_xml_section(accumulated_text, "execution_section") = <<"ls">>
    /\ Cardinality(Occurrences(accumulated_text, CloseTag("execution_section"))) >= 2
    /\ Contains(accumulated_text, <<"pwd">>)

====
